---- MODULE Spec2Model ----
(***************************************************************************)
(* Wordflow2: the WordEngine (lexicon, anagram index, level generation and *)
(* crossword layout) as a state machine.                                   *)
(*                                                                         *)
(* A word is a sequence of one-character strings; a cell is <<x, y>>.      *)
(***************************************************************************)
EXTENDS Integers, Sequences, FiniteSets, TLC

\* ------------------------------------------------------------------ bounds
\* Runs of init's catch block since the index was last cleared.
MaxFallbackRuns == 2
\* Ranking draws: at most this many pool words, consecutive in the pool, draw
\* the higher random value.
MaxPromoted == 1
\* Shuffle draws: the display letters are the root's letters rotated by at
\* most this many places.
MaxRotation == 1
\* Direct isSubset calls: the two words are at most this long.
MaxSigLen == 3

\* Calls of loadNewLevel in one run of App.
MaxLoads == 2

\* Hint requests handled and not yet rendered.
MaxPending == 2

\* Letters a drag selects at most.
MaxSelected == 3

\* ------------------------------------------------------------- characters
Alphabet ==
  <<"a","b","c","d","e","f","g","h","i","j","k","l","m",
    "n","o","p","q","r","s","t","u","v","w","x","y","z">>

Upper ==
  <<"A","B","C","D","E","F","G","H","I","J","K","L","M",
    "N","O","P","Q","R","S","T","U","V","W","X","Y","Z">>

Range(s) == {s[i] : i \in DOMAIN s}

Min(S) == CHOOSE m \in S : \A n \in S : m <= n
Max(S) == CHOOSE m \in S : \A n \in S : m >= n

Letters == Range(Alphabet)

\* UTF-16 order of the characters the engine sorts (lower-case letters).
Ord(c) == CHOOSE i \in DOMAIN Alphabet : Alphabet[i] = c

toLowerCase(w) ==
  [i \in DOMAIN w |->
     IF \E k \in DOMAIN Upper : Upper[k] = w[i]
       THEN Alphabet[CHOOSE k \in DOMAIN Upper : Upper[k] = w[i]]
       ELSE w[i]]

toUpperCase(w) ==
  [i \in DOMAIN w |->
     IF w[i] \in Letters THEN Upper[Ord(w[i])] ELSE w[i]]

RECURSIVE trimStart(_)
trimStart(w) ==
  IF w # <<>> /\ Head(w) = " " THEN trimStart(Tail(w)) ELSE w

RECURSIVE trimEnd(_)
trimEnd(w) ==
  IF w # <<>> /\ w[Len(w)] = " " THEN trimEnd(SubSeq(w, 1, Len(w) - 1)) ELSE w

trim(w) == trimEnd(trimStart(w))

\* word.split('').sort().join('')
RECURSIVE InsertSorted(_, _)
InsertSorted(c, s) ==
  IF s = <<>> THEN <<c>>
  ELSE IF Ord(c) < Ord(Head(s)) THEN <<c>> \o s
  ELSE <<Head(s)>> \o InsertSorted(c, Tail(s))

RECURSIVE sortLetters(_)
sortLetters(w) ==
  IF w = <<>> THEN <<>> ELSE InsertSorted(Head(w), sortLetters(Tail(w)))

\* ------------------------------------------------------------- word lists
PRIORITY_WORDS ==
  <<
     <<"n","i","g","h">>, <<"f","a","i","n">>, <<"y","o","r","e">>, <<"l","o","r","e">>,
     <<"b","a","r","d">>, <<"s","a","g","e">>, <<"v","a","l","e">>, <<"m","o","o","r">>,
     <<"v","i","a","l">>, <<"h","e","l","m">>, <<"r","u","n","e">>, <<"m","e","a","d">>,
     <<"t","h","o","u">>, <<"t","h","e","e">>, <<"q","u","o","t","h">>,
     <<"w","r","o","u","g","h","t">>, <<"b","l","i","t","h","e">>, <<"s","t","a","r","k">>,
     <<"g","r","i","m">>, <<"v","a","n","e">>, <<"r","e","e","d">>
  >>

BLACKLIST ==
  {
     <<"f","r","a","n">>, <<"b","r","a","d">>, <<"g","r","e","g">>, <<"e","b","a","y">>,
     <<"s","o","n","y">>, <<"d","e","l","l">>, <<"n","i","k","e">>, <<"l","e","v","i">>,
     <<"v","i","s","a">>, <<"f","o","r","d">>, <<"f","i","a","t">>, <<"a","s","d","a">>,
     <<"a","u","d","i">>, <<"h","u","g","o">>, <<"m","a","r","c">>, <<"j","e","a","n">>,
     <<"p","a","u","l">>, <<"i","v","a","n">>, <<"k","a","r","l">>, <<"e","r","i","k">>,
     <<"h","t","t","p">>, <<"h","t","m","l">>, <<"w","w","w">>, <<"c","o","m">>, <<"o","r","g">>,
     <<"b","l","o","g">>, <<"s","i","t","e">>, <<"u","s","e","r">>, <<"j","a","v","a">>,
     <<"l","i","n","u","x">>, <<"u","n","i","x">>, <<"x","m","l">>, <<"j","s","o","n">>,
     <<"w","i","f","i">>, <<"a","p","p","s">>, <<"t","e","c","h">>, <<"d","a","t","a">>,
     <<"f","i","l","e">>, <<"l","i","n","k">>, <<"c","o","d","e">>, <<"i","p","a","d">>,
     <<"i","p","o","d">>, <<"x","b","o","x">>, <<"p","s","n">>, <<"b","i","o","s">>,
     <<"p","i","n","g">>, <<"p","o","n","g">>, <<"n","u","l","l">>, <<"v","o","i","d">>,
     <<"j","u","l","y">>, <<"j","u","n","e">>, <<"s","e","p","t">>, <<"o","c","t","o">>,
     <<"n","o","v">>, <<"d","e","c">>, <<"m","o","n">>, <<"t","u","e">>, <<"w","e","d">>,
     <<"t","h","u">>, <<"f","r","i">>, <<"s","a","t">>, <<"s","u","n">>
  }

fallback ==
  <<
     <<"r","u","s","t">>, <<"t","r","u","s","t">>, <<"s","t","a","r">>, <<"s","t","a","i","r">>,
     <<"t","r","a","i","l">>, <<"t","r","a","i","n">>, <<"r","e","a","c","t">>,
     <<"t","r","a","c","e">>, <<"c","a","t","e","r">>, <<"c","r","a","t","e">>,
     <<"g","r","e","a","t">>, <<"g","e","a","r">>, <<"r","e","a","d">>, <<"d","e","a","r">>,
     <<"c","a","r","e">>, <<"r","a","c","e">>, <<"w","o","r","d">>, <<"f","l","o","w">>,
     <<"w","o","l","f">>, <<"b","l","u","e">>, <<"g","l","o","w">>, <<"s","l","o","w">>,
     <<"f","a","s","t">>, <<"l","a","k","e">>, <<"p","e","a","k">>, <<"b","e","a","m">>,
     <<"t","e","a","m">>, <<"n","i","g","h">>, <<"l","o","r","e">>, <<"b","a","r","d">>,
     <<"s","a","g","e">>
  >>

water == <<"w","a","t","e","r">>

\* The word source: each text is the sequence of its lines.
RichText ==
  <<
     <<"m","a","s","t","e","r">>, <<"s","e","a","t">>, <<"s","t","e","m">>, <<"t","e","r","m">>,
     <<" ","T","a","m","e">>, <<"t","s","a","r">>, <<"r","e","a","m">>, <<"m","e","a","t">>,
     <<"e","a","t","s">>, <<"m","a","s","t">>, <<"m","e","s","a">>, <<"r","a","t","e">>,
     <<"e","a","s","t"," ">>, <<"s","e","a","t">>
  >>

\* A text without a usable line.
JunkText ==
  <<
     <<"e","b","a","y">>, <<"c","a","t">>, <<"p","s","s","t">>, <<"i","t","'","s">>,
     <<"s","t","r","a","i","n","e","r">>, <<>>
  >>

SourceTexts == {RichText, JunkText}

\* Math.random() is drawn from {1/3, 2/3}: the numerators and the denominator.
RandomDraws == {1, 2}
RandomScale == Cardinality(RandomDraws) + 1

\* ------------------------------------------------------- program constants
MinWordLength == 4
MaxWordLength == 7
FallbackTargetLength == 5
MaxPlacedWords == 12
AttemptsPerPoolWord == 10

\* App.tsx
MinGuessLength == 4
PointsPerLetter == 10
HintCost == 20
FirstLevelLength == 6
MinNextLength == 5
MaxNextLength == 7

\* The lengths a caller asks generateLevel for.
TargetLengths == MinWordLength..MaxWordLength

\* ------------------------------------------------------------------ state
VARIABLES
  dictionary,     \* WordEngine.dictionary: the lexicon, in order
  dictionarySet,  \* WordEngine.dictionarySet: the validity set
  clusters,       \* WordEngine.clusters: <<[key, words], ...>> in insertion order
  response,       \* init: what the latest completed call's fetch gave
  fallbackRuns,   \* runs of init's catch block since clusters was last cleared
  pc,             \* generateLevel: "idle" (not running) | "called" | "rooted" |
                  \*   "loop" | "done" | "threw"
  targetLength,   \* generateLevel: the parameter, reassigned on the fallback
  randomRoot,     \* generateLevel locals
  rootSorted,
  weightedPool,
  placed,
  grid,
  cellToWords,
  attempts,
  level,          \* the LevelData returned by the call that just completed
  wordA,          \* a direct isSubset call: the two words whose signatures it gets
  wordB,
  subsetResult,   \* and what it returned
  gameState,      \* App state, as the handlers of the latest render see it
  message,
  score,
  levelNumber,
  isSkipped,
  revealedIndices,
  updates,        \* App: state updates queued and not yet rendered
  mounts,         \* App: runs of the mount effect's continuation
  loads,          \* App: calls of loadNewLevel
  letters,        \* LetterWheel: the tiles (props.letters)
  selectedIndices,\* LetterWheel state
  pointerPos,
  currentGuess,   \* App state, LetterWheel's currentWord
  heard,          \* LetterWheel: what the attached window listeners closed over
  moves,          \* LetterWheel: state updates queued and not yet rendered
  completed       \* LetterWheel: the words handed to onWordComplete

engine == <<dictionary, dictionarySet, clusters, response, fallbackRuns>>
locals == <<targetLength, randomRoot, rootSorted, weightedPool, placed, grid,
            cellToWords, attempts>>
subsetCall == <<wordA, wordB, subsetResult>>
app == <<gameState, message, score, levelNumber, isSkipped, revealedIndices,
         updates, mounts, loads>>
wheel == <<letters, selectedIndices, pointerPos, currentGuess, heard, moves,
           completed>>
vars == <<engine, pc, locals, level, subsetCall, app, wheel>>

NoLevel == [none |-> TRUE]

\* No init has completed yet; the fetch threw or answered with a non-OK status.
NoResponse == [ok |-> FALSE, text |-> <<>>, none |-> TRUE]
FailedResponse == [ok |-> FALSE, text |-> <<>>, none |-> FALSE]
OkResponse(text) == [ok |-> TRUE, text |-> text, none |-> FALSE]

\* ------------------------------------------------------------------- init
isCorrectLength(w) == Len(w) >= MinWordLength /\ Len(w) <= MaxWordLength

\* /^[a-z]+$/
isAlpha(w) == w # <<>> /\ \A i \in DOMAIN w : w[i] \in Letters

\* /[aeiouy]/
hasVowel(w) == \E i \in DOMAIN w : w[i] \in {"a", "e", "i", "o", "u", "y"}

\* Mutant of acceptWord: the exclusion list is not consulted.
acceptWordIgnoringBlacklist(w) ==
  isCorrectLength(w) /\ isAlpha(w) /\ hasVowel(w)

acceptWord(w) ==
  isCorrectLength(w) /\ isAlpha(w) /\ hasVowel(w) /\ w \notin BLACKLIST

fetchedWords(text) ==
  SelectSeq([i \in DOMAIN text |-> toLowerCase(trim(text[i]))], acceptWord)

\* [...new Set(list)]: first occurrences, in order.
RECURSIVE uniqueInOrder(_)
uniqueInOrder(list) ==
  IF list = <<>> THEN <<>>
  ELSE LET front == uniqueInOrder(SubSeq(list, 1, Len(list) - 1))
           last == list[Len(list)]
       IN IF last \in Range(front) THEN front ELSE Append(front, last)

\* One pass of the forEach body: file word under its sorted letters.
addToClusters(cl, word) ==
  LET sorted == sortLetters(word)
  IN IF \E k \in DOMAIN cl : cl[k].key = sorted
       THEN [k \in DOMAIN cl |->
               IF cl[k].key = sorted
                 THEN [cl[k] EXCEPT !.words = Append(@, word)]
                 ELSE cl[k]]
       ELSE Append(cl, [key |-> sorted, words |-> <<word>>])

RECURSIVE buildClusters(_, _)
buildClusters(cl, words) ==
  IF words = <<>> THEN cl
  ELSE buildClusters(addToClusters(cl, Head(words)), Tail(words))

\* init, the fetch succeeding with `text`.
InitFetched(text) ==
  /\ pc = "idle"
  /\ LET combined == uniqueInOrder(fetchedWords(text) \o PRIORITY_WORDS)
     IN /\ dictionary' = combined
        /\ dictionarySet' = Range(combined)
        /\ clusters' = buildClusters(<<>>, combined)
  /\ response' = OkResponse(text)
  /\ fallbackRuns' = 0
  /\ UNCHANGED <<pc, locals, level, subsetCall, app, wheel>>

\* init, the fetch failing (network error or non-OK status): the catch block.
InitFallback ==
  /\ pc = "idle"
  /\ fallbackRuns < MaxFallbackRuns
  /\ dictionary' = fallback
  /\ dictionarySet' = Range(fallback)
  /\ clusters' = buildClusters(clusters, fallback)
  /\ response' = FailedResponse
  /\ fallbackRuns' = fallbackRuns + 1
  /\ UNCHANGED <<pc, locals, level, subsetCall, app, wheel>>

isValidWord(word) == toLowerCase(word) \in dictionarySet

\* --------------------------------------------------------------- isSubset
charCount(s, c) == Cardinality({i \in DOMAIN s : s[i] = c})

\* Mutant of consume: the count of a character met is not decremented.
RECURSIVE consumeWithoutDecrement(_, _)
consumeWithoutDecrement(small, counts) ==
  IF small = <<>> THEN TRUE
  ELSE LET c == Head(small)
       IN IF c \notin DOMAIN counts \/ counts[c] = 0 THEN FALSE
          ELSE consumeWithoutDecrement(Tail(small), counts)

RECURSIVE consume(_, _)
consume(small, counts) ==
  IF small = <<>> THEN TRUE
  ELSE LET c == Head(small)
       IN IF c \notin DOMAIN counts \/ counts[c] = 0 THEN FALSE
          ELSE consume(Tail(small), [counts EXCEPT ![c] = @ - 1])

\* Mutant of isSubset: multiplicities ignored.
isSubsetOfLetterSet(smallSorted, bigSorted) ==
  Range(smallSorted) \subseteq Range(bigSorted)

isSubset(smallSorted, bigSorted) ==
  consume(smallSorted, [c \in Range(bigSorted) |-> charCount(bigSorted, c)])

\* ---------------------------------------------------------- generateLevel
\* dictionary.filter(w => w.length === n)
RECURSIVE wordsOfLength(_, _)
wordsOfLength(words, n) ==
  IF words = <<>> THEN <<>>
  ELSE (IF Len(Head(words)) = n THEN <<Head(words)>> ELSE <<>>)
         \o wordsOfLength(Tail(words), n)

\* Mutant of rootWordsFor: no fallback to length 5.
rootWordsExact(asked) == wordsOfLength(dictionary, asked)

\* Mutant of rootWordsFor: the fallback steps down to asked - 1.
rootWordsStepDown(asked) ==
  LET exact == wordsOfLength(dictionary, asked)
  IN IF exact = <<>> THEN wordsOfLength(dictionary, asked - 1)
     ELSE exact

\* rootWords, for the length the caller asked for.
rootWordsFor(asked) ==
  LET exact == wordsOfLength(dictionary, asked)
  IN IF exact = <<>> THEN wordsOfLength(dictionary, FallbackTargetLength)
     ELSE exact

\* targetLength once rootWords is computed.
lengthUsed(asked) ==
  IF wordsOfLength(dictionary, asked) = <<>> THEN FallbackTargetLength ELSE asked

RECURSIVE poolFrom(_, _)
poolFrom(cl, root) ==
  IF cl = <<>> THEN <<>>
  ELSE (IF isSubset(Head(cl).key, root) THEN Head(cl).words ELSE <<>>)
         \o poolFrom(Tail(cl), root)

RECURSIVE Pow(_, _)
Pow(b, e) == IF e = 0 THEN 1 ELSE b * Pow(b, e - 1)

\* Math.pow(ra/RandomScale, 1/|a|) > Math.pow(rb/RandomScale, 1/|b|), both sides
\* raised to the power |a|*|b|.
scoreAbove(a, ra, b, rb) ==
  Pow(ra, Len(b)) * Pow(RandomScale, Len(a)) > Pow(rb, Len(a)) * Pow(RandomScale, Len(b))

\* sort((a, b) => b.score - a.score): descending and stable.
RECURSIVE insertRanked(_, _)
insertRanked(e, s) ==
  IF s = <<>> THEN <<e>>
  ELSE IF scoreAbove(e.word, e.r, Head(s).word, Head(s).r) THEN <<e>> \o s
  ELSE <<Head(s)>> \o insertRanked(e, Tail(s))

RECURSIVE sortByScore(_)
sortByScore(scored) ==
  IF scored = <<>> THEN <<>>
  ELSE insertRanked(scored[Len(scored)],
                    sortByScore(SubSeq(scored, 1, Len(scored) - 1)))

rankPool(pool, draws) ==
  LET sorted == sortByScore([i \in DOMAIN pool |-> [word |-> pool[i], r |-> draws[i]]])
  IN [i \in DOMAIN sorted |-> sorted[i].word]

\* The ranking draws of a pool of n words: a run of at most MaxPromoted
\* consecutive words draws the highest value, the others the lowest.
ScoreDraws(n) ==
  {[i \in 1..n |-> Min(RandomDraws)]}
    \cup {[i \in 1..n |-> IF from <= i /\ i < from + len THEN Max(RandomDraws)
                                                         ELSE Min(RandomDraws)]
            : from \in 1..n, len \in 1..MaxPromoted}

cellOf(x, y, dir, i) ==
  IF dir = "horizontal" THEN <<x + i, y>> ELSE <<x, y + i>>

adjacents(c) ==
  { [cell |-> <<c[1] - 1, c[2]>>, label |-> "left"],
    [cell |-> <<c[1] + 1, c[2]>>, label |-> "right"],
    [cell |-> <<c[1], c[2] - 1>>, label |-> "up"],
    [cell |-> <<c[1], c[2] + 1>>, label |-> "down"] }

\* Mutant of cellAllows: a perpendicular neighbour is never an obstacle.
cellAllowsGrazing(g, c2w, word, x, y, dir, ix, iy, i) ==
  LET cur == cellOf(x, y, dir, i)
      char == word[i + 1]
  IN /\ cur \in DOMAIN g =>
          /\ g[cur] = char
          /\ Len(c2w[cur]) < 2
          /\ cur = <<ix, iy>>
     /\ \A adj \in adjacents(cur) :
          adj.cell \in DOMAIN g =>
            LET isWordFlow ==
                  \/ dir = "horizontal" /\ adj.label \in {"left", "right"}
                  \/ dir = "vertical" /\ adj.label \in {"up", "down"}
            IN isWordFlow =>
                 /\ ~(i = 0 /\ adj.label = "left")
                 /\ ~(i = Len(word) - 1 /\ adj.label = "right")
                 /\ dir = "vertical" =>
                      /\ ~(i = 0 /\ adj.label = "up")
                      /\ ~(i = Len(word) - 1 /\ adj.label = "down")

\* Mutant of cellAllows: an occupied cell is accepted whenever its letter
\* matches, whoever claims it and wherever it lies.
cellAllowsOverlap(g, c2w, word, x, y, dir, ix, iy, i) ==
  LET cur == cellOf(x, y, dir, i)
      char == word[i + 1]
      isIntersectionCell == cur = <<ix, iy>>
  IN /\ cur \in DOMAIN g => g[cur] = char
     /\ \A adj \in adjacents(cur) :
          adj.cell \in DOMAIN g =>
            LET isWordFlow ==
                  \/ dir = "horizontal" /\ adj.label \in {"left", "right"}
                  \/ dir = "vertical" /\ adj.label \in {"up", "down"}
            IN IF isWordFlow
                 THEN /\ ~(i = 0 /\ adj.label = "left")
                      /\ ~(i = Len(word) - 1 /\ adj.label = "right")
                      /\ dir = "vertical" =>
                           /\ ~(i = 0 /\ adj.label = "up")
                           /\ ~(i = Len(word) - 1 /\ adj.label = "down")
                 ELSE isIntersectionCell

\* One pass of canPlace's loop body for letter i (0-based): TRUE unless it
\* returns false.
cellAllows(g, c2w, word, x, y, dir, ix, iy, i) ==
  LET cur == cellOf(x, y, dir, i)
      char == word[i + 1]
      isIntersectionCell == cur = <<ix, iy>>
  IN /\ cur \in DOMAIN g =>
          /\ g[cur] = char
          /\ Len(c2w[cur]) < 2
          /\ cur = <<ix, iy>>
     /\ \A adj \in adjacents(cur) :
          adj.cell \in DOMAIN g =>
            LET isWordFlow ==
                  \/ dir = "horizontal" /\ adj.label \in {"left", "right"}
                  \/ dir = "vertical" /\ adj.label \in {"up", "down"}
            IN IF isWordFlow
                 THEN /\ ~(i = 0 /\ adj.label = "left")
                      /\ ~(i = Len(word) - 1 /\ adj.label = "right")
                      /\ dir = "vertical" =>
                           /\ ~(i = 0 /\ adj.label = "up")
                           /\ ~(i = Len(word) - 1 /\ adj.label = "down")
                 ELSE isIntersectionCell

canPlace(g, c2w, word, x, y, dir, ix, iy) ==
  \A i \in 0..(Len(word) - 1) : cellAllows(g, c2w, word, x, y, dir, ix, iy, i)

\* Mutant of place: the grid gets the word's letters in reverse.
placeReversed(pl, g, c2w, word, x, y, dir) ==
  LET run == {cellOf(x, y, dir, i) : i \in 0..(Len(word) - 1)}
      at(c) == CHOOSE i \in 0..(Len(word) - 1) : cellOf(x, y, dir, i) = c
  IN [placed |-> Append(pl, [word |-> word, x |-> x, y |-> y, direction |-> dir]),
      grid |-> [c \in DOMAIN g \cup run |->
                  IF c \in run THEN word[Len(word) - at(c)] ELSE g[c]],
      cellToWords |-> [c \in DOMAIN g \cup run |->
                         IF c \in run
                           THEN Append(IF c \in DOMAIN c2w THEN c2w[c] ELSE <<>>, word)
                           ELSE c2w[c]]]

\* Mutant of place: the new word is put in front of the placed list (unshift
\* for push).
placePrepending(pl, g, c2w, word, x, y, dir) ==
  LET run == {cellOf(x, y, dir, i) : i \in 0..(Len(word) - 1)}
      at(c) == CHOOSE i \in 0..(Len(word) - 1) : cellOf(x, y, dir, i) = c
  IN [placed |-> <<[word |-> word, x |-> x, y |-> y, direction |-> dir]>> \o pl,
      grid |-> [c \in DOMAIN g \cup run |->
                  IF c \in run THEN word[at(c) + 1] ELSE g[c]],
      cellToWords |-> [c \in DOMAIN g \cup run |->
                         IF c \in run
                           THEN Append(IF c \in DOMAIN c2w THEN c2w[c] ELSE <<>>, word)
                           ELSE c2w[c]]]

\* place: the three collections after the commit.
place(pl, g, c2w, word, x, y, dir) ==
  LET run == {cellOf(x, y, dir, i) : i \in 0..(Len(word) - 1)}
      at(c) == CHOOSE i \in 0..(Len(word) - 1) : cellOf(x, y, dir, i) = c
  IN [placed |-> Append(pl, [word |-> word, x |-> x, y |-> y, direction |-> dir]),
      grid |-> [c \in DOMAIN g \cup run |->
                  IF c \in run THEN word[at(c) + 1] ELSE g[c]],
      cellToWords |-> [c \in DOMAIN g \cup run |->
                         IF c \in run
                           THEN Append(IF c \in DOMAIN c2w THEN c2w[c] ELSE <<>>, word)
                           ELSE c2w[c]]]

\* Mutant of firstWord: the top-ranked word, whatever its length.
firstWordTopRanked(wp, root) == wp[1]

\* weightedPool.find(w => w.length === randomRoot.length) || weightedPool[0]
firstWord(wp, root) ==
  IF \E k \in DOMAIN wp : Len(wp[k]) = Len(root)
    THEN wp[CHOOSE k \in DOMAIN wp :
                /\ Len(wp[k]) = Len(root)
                /\ \A m \in 1..(k - 1) : Len(wp[m]) # Len(root)]
    ELSE wp[1]

\* generateLevel is called with targetLength = asked.
Call(asked) ==
  /\ pc = "idle"
  /\ pc' = "called"
  /\ targetLength' = asked
  /\ level' = NoLevel
  /\ UNCHANGED <<engine, randomRoot, rootSorted, weightedPool, placed, grid, cellToWords,
                 attempts, subsetCall, app, wheel>>

GenerateLevel == \E asked \in TargetLengths : Call(asked)

\* Mutant of SelectRoot: the filter's result is stored back into the lexicon.
SelectRootFilteringInPlace ==
  /\ pc = "called"
  /\ LET rootWords == rootWordsFor(targetLength)
     IN /\ dictionary' = rootWords
        /\ \E pick \in (IF rootWords = <<>> THEN {0} ELSE DOMAIN rootWords) :
             LET root == IF pick = 0 THEN water ELSE rootWords[pick]
             IN /\ randomRoot' = root
                /\ rootSorted' = sortLetters(root)
  /\ targetLength' = lengthUsed(targetLength)
  /\ pc' = "rooted"
  /\ UNCHANGED <<dictionarySet, clusters, response, fallbackRuns, weightedPool, placed,
                 grid, cellToWords, attempts, level, subsetCall, app, wheel>>

\* Root selection: rootWords, the fallback of targetLength, randomRoot and
\* rootSorted. pick = 0 stands for the index that rootWords does not hold.
SelectRoot ==
  /\ pc = "called"
  /\ LET rootWords == rootWordsFor(targetLength)
     IN \E pick \in (IF rootWords = <<>> THEN {0} ELSE DOMAIN rootWords) :
          LET root == IF pick = 0 THEN water ELSE rootWords[pick]
          IN /\ randomRoot' = root
             /\ rootSorted' = sortLetters(root)
  /\ targetLength' = lengthUsed(targetLength)
  /\ pc' = "rooted"
  /\ UNCHANGED <<engine, weightedPool, placed, grid, cellToWords, attempts, level,
                 subsetCall, app, wheel>>

\* The pool, its ranking and the seed placement; with an empty pool firstWord
\* is undefined and place throws on word.length.
Generate(draws) ==
  LET wp == rankPool(poolFrom(clusters, rootSorted), draws)
  IN /\ weightedPool' = wp
     /\ attempts' = 0
     /\ IF wp = <<>>
          THEN /\ pc' = "threw"
               /\ placed' = <<>>
               /\ grid' = <<>>
               /\ cellToWords' = <<>>
          ELSE LET seed == place(<<>>, <<>>, <<>>, firstWord(wp, randomRoot), 0, 0,
                                 "horizontal")
               IN /\ pc' = "loop"
                  /\ placed' = seed.placed
                  /\ grid' = seed.grid
                  /\ cellToWords' = seed.cellToWords
     /\ UNCHANGED <<engine, targetLength, randomRoot, rootSorted, level, subsetCall, app, wheel>>

BuildPool ==
  /\ pc = "rooted"
  /\ \E draws \in ScoreDraws(Len(poolFrom(clusters, rootSorted))) : Generate(draws)

\* Mutant of crossing: the anchor is offset by +j instead of -j.
crossingMirrored(p, i, j) ==
  IF p.direction = "horizontal"
    THEN [x |-> p.x + i, y |-> p.y + j, dir |-> "vertical", ix |-> p.x + i, iy |-> p.y]
    ELSE [x |-> p.x + j, y |-> p.y + i, dir |-> "horizontal", ix |-> p.x, iy |-> p.y + i]

\* Mutant of crossing: the candidate keeps the axis of the placed word.
crossingParallel(p, i, j) ==
  IF p.direction = "horizontal"
    THEN [x |-> p.x + i, y |-> p.y - j, dir |-> "horizontal", ix |-> p.x + i, iy |-> p.y]
    ELSE [x |-> p.x - j, y |-> p.y + i, dir |-> "vertical", ix |-> p.x, iy |-> p.y + i]

\* The crossing of candidate letter j with letter i of the placed word p.
crossing(p, i, j) ==
  IF p.direction = "horizontal"
    THEN [x |-> p.x + i, y |-> p.y - j, dir |-> "vertical", ix |-> p.x + i, iy |-> p.y]
    ELSE [x |-> p.x - j, y |-> p.y + i, dir |-> "horizontal", ix |-> p.x, iy |-> p.y + i]

\* The (k, i, j) at which the search loop would set bestFit.
fits(pl, g, c2w, candidate) ==
  {f \in (DOMAIN pl) \X (0..(MaxWordLength - 1)) \X (0..(Len(candidate) - 1)) :
     /\ f[2] < Len(pl[f[1]].word)
     /\ pl[f[1]].word[f[2] + 1] = candidate[f[3] + 1]
     /\ LET c == crossing(pl[f[1]], f[2], f[3])
        IN canPlace(g, c2w, candidate, c.x, c.y, c.dir, c.ix, c.iy)}

\* Mutant of searchBefore: without the breaks the last fit wins.
searchKeepsLast(f, h) ==
  \/ f[1] > h[1]
  \/ f[1] = h[1] /\ f[2] > h[2]
  \/ f[1] = h[1] /\ f[2] = h[2] /\ f[3] >= h[3]

searchBefore(f, h) ==
  \/ f[1] < h[1]
  \/ f[1] = h[1] /\ f[2] < h[2]
  \/ f[1] = h[1] /\ f[2] = h[2] /\ f[3] <= h[3]

\* The loop breaks at the first fit in (p, i, j) order: bestFit, as a set that
\* is empty when bestFit stays null.
bestFit(pl, g, c2w, candidate) ==
  LET all == fits(pl, g, c2w, candidate)
  IN {crossing(pl[f[1]], f[2], f[3]) :
        f \in {f \in all : \A h \in all : searchBefore(f, h)}}

\* Mutant of alreadyPlaced: the skip never triggers.
neverSkipped(pl, candidate) == FALSE

alreadyPlaced(pl, candidate) == \E k \in DOMAIN pl : pl[k].word = candidate

\* Mutant of loopRuns: both comparisons off by one.
loopRunsOneMore ==
  /\ Len(placed) <= MaxPlacedWords
  /\ attempts <= Len(weightedPool) * AttemptsPerPoolWord

loopRuns ==
  /\ Len(placed) < MaxPlacedWords
  /\ attempts < Len(weightedPool) * AttemptsPerPoolWord

\* One iteration of the placement loop.
Attempt ==
  /\ pc = "loop"
  /\ loopRuns
  /\ attempts' = attempts + 1
  /\ LET candidate == weightedPool[(attempts % Len(weightedPool)) + 1]
         found == IF alreadyPlaced(placed, candidate) THEN {}
                  ELSE bestFit(placed, grid, cellToWords, candidate)
     IN IF found = {}
          THEN UNCHANGED <<placed, grid, cellToWords>>
          ELSE LET b == CHOOSE b \in found : TRUE
                   next == place(placed, grid, cellToWords, candidate, b.x, b.y, b.dir)
               IN /\ placed' = next.placed
                  /\ grid' = next.grid
                  /\ cellToWords' = next.cellToWords
  /\ UNCHANGED <<engine, pc, targetLength, randomRoot, rootSorted, weightedPool,
                 level, subsetCall, app, wheel>>

endX(p) == IF p.direction = "horizontal" THEN p.x + Len(p.word) - 1 ELSE p.x
endY(p) == IF p.direction = "vertical" THEN p.y + Len(p.word) - 1 ELSE p.y

\* Mutant of rotate: the index is clamped at the end instead of wrapping.
rotateClamped(s, r) == [i \in DOMAIN s |-> s[Min({i + r, Len(s)})]]

rotate(s, r) == [i \in DOMAIN s |-> s[((i - 1 + r) % Len(s)) + 1]]

\* sort(() => Math.random() - 0.5): the orders the shuffle draws produce.
Shuffles(s) == {rotate(s, r) : r \in 0..MaxRotation}

\* Mutant of levelData: the anchors are not translated.
levelDataUnshifted(pl, root, sorted, shown) ==
  LET minX == Min({pl[k].x : k \in DOMAIN pl})
      minY == Min({pl[k].y : k \in DOMAIN pl})
      maxX == Max({endX(pl[k]) : k \in DOMAIN pl})
      maxY == Max({endY(pl[k]) : k \in DOMAIN pl})
  IN [rootLetters |-> sorted,
      displayLetters |-> shown,
      validWords |-> [k \in DOMAIN pl |-> pl[k].word],
      placedWords |-> pl,
      gridWidth |-> maxX - minX + 1,
      gridHeight |-> maxY - minY + 1,
      foundWords |-> {}]

\* Mutant of levelData: the extent is taken without the + 1.
levelDataShortBox(pl, root, sorted, shown) ==
  LET minX == Min({pl[k].x : k \in DOMAIN pl})
      minY == Min({pl[k].y : k \in DOMAIN pl})
      maxX == Max({endX(pl[k]) : k \in DOMAIN pl})
      maxY == Max({endY(pl[k]) : k \in DOMAIN pl})
      finalPlaced == [k \in DOMAIN pl |->
                        [pl[k] EXCEPT !.x = @ - minX, !.y = @ - minY]]
  IN [rootLetters |-> sorted,
      displayLetters |-> shown,
      validWords |-> [k \in DOMAIN finalPlaced |-> finalPlaced[k].word],
      placedWords |-> finalPlaced,
      gridWidth |-> maxX - minX,
      gridHeight |-> maxY - minY,
      foundWords |-> {}]

\* The LevelData assembled from the loop's result.
levelData(pl, root, sorted, shown) ==
  LET minX == Min({pl[k].x : k \in DOMAIN pl})
      minY == Min({pl[k].y : k \in DOMAIN pl})
      maxX == Max({endX(pl[k]) : k \in DOMAIN pl})
      maxY == Max({endY(pl[k]) : k \in DOMAIN pl})
      finalPlaced == [k \in DOMAIN pl |->
                        [pl[k] EXCEPT !.x = @ - minX, !.y = @ - minY]]
  IN [rootLetters |-> sorted,
      displayLetters |-> shown,
      validWords |-> [k \in DOMAIN finalPlaced |-> finalPlaced[k].word],
      placedWords |-> finalPlaced,
      gridWidth |-> maxX - minX + 1,
      gridHeight |-> maxY - minY + 1,
      foundWords |-> {}]

\* The loop exits; the bounding box is normalised and the LevelData returned.
Finish ==
  /\ pc = "loop"
  /\ ~loopRuns
  /\ \E shown \in Shuffles(toUpperCase(randomRoot)) :
       level' = levelData(placed, randomRoot, rootSorted, shown)
  /\ pc' = "done"
  /\ UNCHANGED <<engine, locals, subsetCall, app, wheel>>

\* generateLevel returns (or its exception reaches the caller): the call's
\* grid, placed list and pool go out of scope.
Return ==
  /\ pc \in {"done", "threw"}
  /\ pc' = "idle"
  /\ targetLength' = 0
  /\ randomRoot' = <<>>
  /\ rootSorted' = <<>>
  /\ weightedPool' = <<>>
  /\ placed' = <<>>
  /\ grid' = <<>>
  /\ cellToWords' = <<>>
  /\ attempts' = 0
  /\ level' = NoLevel
  /\ UNCHANGED <<engine, subsetCall, app, wheel>>

\* ---------------------------------------------------------- specification
\* The engine as constructed, no call in progress.
Constructed ==
  /\ dictionary = <<>>
  /\ dictionarySet = {}
  /\ clusters = <<>>
  /\ response = NoResponse
  /\ fallbackRuns = 0
  /\ pc = "idle"
  /\ targetLength = 0
  /\ randomRoot = <<>>
  /\ rootSorted = <<>>
  /\ weightedPool = <<>>
  /\ placed = <<>>
  /\ grid = <<>>
  /\ cellToWords = <<>>
  /\ attempts = 0
  /\ level = NoLevel

\* App before its mount effect has run: the useState initial values.
AppConstructed ==
  /\ gameState = "LOADING"
  /\ message = ""
  /\ score = 0
  /\ levelNumber = 1
  /\ isSkipped = FALSE
  /\ revealedIndices = <<>>
  /\ updates = <<>>
  /\ mounts = 0
  /\ loads = 0

\* No LetterWheel is rendered.
NoWheel ==
  /\ letters = <<>>
  /\ selectedIndices = <<>>
  /\ pointerPos = "null"
  /\ currentGuess = <<>>
  /\ heard = [attached |-> FALSE, selectedIndices |-> <<>>, currentWord |-> <<>>]
  /\ moves = <<>>
  /\ completed = <<>>

NoSubsetCall == [called |-> FALSE, value |-> FALSE]

Init ==
  /\ Constructed
  /\ wordA = <<>>
  /\ wordB = <<>>
  /\ subsetResult = NoSubsetCall
  /\ AppConstructed
  /\ NoWheel

InitSucceeds == \E text \in SourceTexts : InitFetched(text)

Next ==
  \/ InitSucceeds
  \/ InitFallback
  \/ GenerateLevel
  \/ SelectRoot
  \/ BuildPool
  \/ Attempt
  \/ Finish
  \/ Return

Spec == Init /\ [][Next]_vars

\* ------------------------------------------------- isSubset called directly
\* The characters of the words handed to isSubset.
SigLetters == {"a", "b", "c"}

RECURSIVE WordsUpTo(_)
WordsUpTo(n) ==
  IF n = 0 THEN {<<>>}
  ELSE LET shorter == WordsUpTo(n - 1)
       IN shorter \cup {Append(w, c) : w \in shorter, c \in SigLetters}

InitSubset ==
  /\ Constructed
  /\ wordA \in WordsUpTo(MaxSigLen)
  /\ wordB \in WordsUpTo(MaxSigLen)
  /\ subsetResult = NoSubsetCall
  /\ AppConstructed
  /\ NoWheel

\* isSubset(sig(A), sig(B)), sig being the letters sorted.
IsSubsetCall ==
  /\ ~subsetResult.called
  /\ subsetResult' = [called |-> TRUE,
                      value |-> isSubset(sortLetters(wordA), sortLetters(wordB))]
  /\ UNCHANGED <<engine, pc, locals, level, wordA, wordB, app, wheel>>

SubsetSpec == InitSubset /\ [][IsSubsetCall]_vars

\* ------------------------------------------------------------- properties
cellsOf(p) == {cellOf(p.x, p.y, p.direction, i) : i \in 0..(Len(p.word) - 1)}

letterAt(p, c) ==
  p.word[(CHOOSE i \in 0..(Len(p.word) - 1) : cellOf(p.x, p.y, p.direction, i) = c) + 1]

occupiedBy(pl) == UNION {cellsOf(pl[k]) : k \in DOMAIN pl}

claimants(pl, c) ==
  LET cells == [k \in DOMAIN pl |-> cellsOf(pl[k])]
  IN {k \in DOMAIN pl : c \in cells[k]}

neighbours(c) ==
  {<<c[1] - 1, c[2]>>, <<c[1] + 1, c[2]>>, <<c[1], c[2] - 1>>, <<c[1], c[2] + 1>>}

inLayout == pc \in {"loop", "done"}

\* Some init call has completed.
initialised == dictionary # <<>>

poolWords == Range(weightedPool)

placedStrings(pl) == {pl[k].word : k \in DOMAIN pl}

\* The word the next loop iteration tries, when it is not placed yet.
nextCandidate == weightedPool[(attempts % Len(weightedPool)) + 1]

candidatePending ==
  /\ pc = "loop"
  /\ loopRuns
  /\ ~alreadyPlaced(placed, nextCandidate)

\* The (k, i, j) at which a letter of the candidate equals a letter of a
\* placed word.
letterMatches(pl, candidate) ==
  {f \in (DOMAIN pl) \X (0..(MaxWordLength - 1)) \X (0..(Len(candidate) - 1)) :
     /\ f[2] < Len(pl[f[1]].word)
     /\ pl[f[1]].word[f[2] + 1] = candidate[f[3] + 1]}

runOf(word, c) == {cellOf(c.x, c.y, c.dir, i) : i \in 0..(Len(word) - 1)}

\* C1: in every state of the layout loop, two orthogonally adjacent occupied
\* cells always lie together in one placed word.
NoIllegalTouch ==
  inLayout =>
    LET cells == [k \in DOMAIN placed |-> cellsOf(placed[k])]
    IN \A c \in DOMAIN grid : \A d \in neighbours(c) :
         d \in DOMAIN grid =>
           \E k \in DOMAIN placed : c \in cells[k] /\ d \in cells[k]

\* C1 witness: the next candidate has a crossing whose run covers no occupied
\* cell but the crossing cell, and canPlace still turns it down: the run
\* would touch another word.
NoIllegalTouchWitness ==
  /\ candidatePending
  /\ Len(placed) >= 3
  /\ \E f \in letterMatches(placed, nextCandidate) :
       LET c == crossing(placed[f[1]], f[2], f[3])
       IN /\ runOf(nextCandidate, c) \cap DOMAIN grid = {<<c.ix, c.iy>>}
          /\ Len(cellToWords[<<c.ix, c.iy>>]) = 1
          /\ ~canPlace(grid, cellToWords, nextCandidate, c.x, c.y, c.dir, c.ix, c.iy)

\* C2: the grid records, for every cell of every placed word, that word's
\* letter there; in the returned LevelData two words on one cell agree on it.
GridMatchesWords ==
  /\ inLayout =>
       \A k \in DOMAIN placed : \A c \in cellsOf(placed[k]) :
         c \in DOMAIN grid /\ grid[c] = letterAt(placed[k], c)
  /\ pc = "done" =>
       \A k, m \in DOMAIN level.placedWords :
         \A c \in cellsOf(level.placedWords[k]) \cap cellsOf(level.placedWords[m]) :
           letterAt(level.placedWords[k], c) = letterAt(level.placedWords[m], c)

\* C2 witness: a returned layout with a cell that two words cover.
GridMatchesWordsWitness ==
  /\ pc = "done"
  /\ \E c \in DOMAIN grid : Cardinality(claimants(placed, c)) = 2

atMostOneCrossing(pl) ==
  LET cells == [k \in DOMAIN pl |-> cellsOf(pl[k])]
  IN \A c \in UNION Range(cells) :
       LET who == {k \in DOMAIN pl : c \in cells[k]}
       IN /\ Cardinality(who) <= 2
          /\ \A k, m \in who : k # m => pl[k].direction # pl[m].direction

\* C3: a cell is claimed by at most two placed words, and two claimants of a
\* cell are one horizontal and one vertical word; also in the LevelData.
TrueCrossingsOnly ==
  /\ inLayout =>
       /\ atMostOneCrossing(placed)
       /\ \A c \in DOMAIN grid : Len(cellToWords[c]) <= 2
  /\ pc = "done" => atMostOneCrossing(level.placedWords)

\* C3 witness: the next candidate matches a letter on a cell that two words
\* already claim.
TrueCrossingsOnlyWitness ==
  /\ candidatePending
  /\ \E f \in letterMatches(placed, nextCandidate) :
       LET c == crossing(placed[f[1]], f[2], f[3])
       IN Cardinality(claimants(placed, <<c.ix, c.iy>>)) = 2

letterSubset(word, root) ==
  \A c \in Range(word) : charCount(word, c) <= charCount(root, c)

\* C4: every placed word of a returned LevelData uses each letter at most as
\* often as rootLetters holds it.
PlacedWithinRoot ==
  pc = "done" =>
    \A k \in DOMAIN level.placedWords :
      letterSubset(level.placedWords[k].word, level.rootLetters)

\* C4 witness: a returned level with a placed word shorter than the root,
\* while the lexicon holds a word the root cannot spell.
PlacedWithinRootWitness ==
  /\ pc = "done"
  /\ \E k \in DOMAIN level.placedWords :
       Len(level.placedWords[k].word) < Len(level.rootLetters)
  /\ \E w \in dictionarySet : ~letterSubset(w, level.rootLetters)

\* C5: validWords of a returned LevelData lists the placed words' strings in
\* placement order, without a duplicate, and holds no unplaced pool word.
ValidWordsArePlaced ==
  pc = "done" =>
    /\ level.validWords = [k \in DOMAIN placed |-> placed[k].word]
    /\ \A k, m \in DOMAIN level.validWords :
         level.validWords[k] = level.validWords[m] => k = m
    /\ \A w \in poolWords \ placedStrings(placed) : w \notin Range(level.validWords)

\* C5 witness: a returned level whose pool holds a word that was never placed.
ValidWordsArePlacedWitness ==
  /\ pc = "done"
  /\ Len(placed) >= 2
  /\ poolWords \ placedStrings(placed) # {}

\* The cells reachable from `seen` through orthogonally adjacent cells of S.
RECURSIVE reach(_, _)
reach(seen, S) ==
  LET more == {c \in S \ seen : neighbours(c) \cap seen # {}}
  IN IF more = {} THEN seen ELSE reach(seen \cup more, S)

connectedRegion(S) == S = {} \/ reach({CHOOSE c \in S : TRUE}, S) = S

\* C6: every placed word but the seed shares a cell with a word placed before
\* it, and the occupied cells form one orthogonally connected region.
LayoutConnected ==
  /\ inLayout =>
       LET cells == [k \in DOMAIN placed |-> cellsOf(placed[k])]
       IN \A k \in DOMAIN placed :
            k > 1 => \E m \in 1..(k - 1) : cells[k] \cap cells[m] # {}
  /\ pc = "done" =>
       /\ connectedRegion(DOMAIN grid)
       /\ connectedRegion(occupiedBy(level.placedWords))

\* C6 witness: a word placed on a crossing with a word that is not the seed.
LayoutConnectedWitness ==
  /\ inLayout
  /\ \E k \in DOMAIN placed :
       /\ k > 2
       /\ cellsOf(placed[k]) \cap cellsOf(placed[1]) = {}

\* C7: in a returned LevelData the least x and the least y over the cells of
\* the placed words are both 0.
OriginNormalised ==
  pc = "done" =>
    /\ Min({c[1] : c \in occupiedBy(level.placedWords)}) = 0
    /\ Min({c[2] : c \in occupiedBy(level.placedWords)}) = 0

\* C7 witness: a returned level whose layout reached left of and above the
\* seed's anchor, so that both coordinates were shifted.
OriginNormalisedWitness ==
  /\ pc = "done"
  /\ \E c \in DOMAIN grid : c[1] < 0
  /\ \E c \in DOMAIN grid : c[2] < 0

\* C8: gridWidth and gridHeight of a returned LevelData are the tight bounding
\* box: every cell lies inside it and its last column and last row are used.
TightBoundingBox ==
  pc = "done" =>
    LET cells == occupiedBy(level.placedWords)
    IN /\ \A c \in cells :
            /\ 0 <= c[1] /\ c[1] < level.gridWidth
            /\ 0 <= c[2] /\ c[2] < level.gridHeight
       /\ \E c \in cells : c[1] = level.gridWidth - 1
       /\ \E c \in cells : c[2] = level.gridHeight - 1

\* C8 witness: a returned level whose widest row is not the seed's and whose
\* box is more than one cell high.
TightBoundingBoxWitness ==
  /\ pc = "done"
  /\ level.gridWidth > Len(placed[1].word)
  /\ level.gridHeight > 1

\* C9: the loop spends at most pool size x 10 attempts, one per iteration,
\* never holds more than 12 placed words, and has ended with exactly 12 words
\* placed or with every attempt spent.
LoopBounded ==
  /\ [](inLayout =>
          /\ attempts <= Len(weightedPool) * AttemptsPerPoolWord
          /\ Len(placed) <= MaxPlacedWords
          /\ pc = "done" =>
               \/ Len(placed) = MaxPlacedWords
               \/ attempts = Len(weightedPool) * AttemptsPerPoolWord)
  /\ [][pc = "loop" =>
          \/ pc' = "done" /\ attempts' = attempts /\ placed' = placed
          \/ /\ pc' = "loop"
             /\ attempts' = attempts + 1
             /\ Len(placed') \in {Len(placed), Len(placed) + 1}]_vars

\* C9 witness: the loop ended on the twelfth word with attempts to spare.
LoopBoundedWitness ==
  /\ pc = "done"
  /\ Len(placed) = MaxPlacedWords
  /\ attempts < Len(weightedPool) * AttemptsPerPoolWord

\* C10: once an init has completed, generateLevel never throws, and the
\* LevelData it returns has a placed word and a positive width and height.
AlwaysUsableLevel ==
  /\ initialised =>
       /\ pc # "threw"
       /\ pc = "done" =>
            /\ Len(level.placedWords) >= 1
            /\ level.gridWidth >= 1
            /\ level.gridHeight >= 1
  /\ pc = "threw" => weightedPool = <<>>

\* C10 witness: a level returned from a lexicon whose longest words have the
\* fallback length, with an index that still holds an earlier lexicon's words.
AlwaysUsableLevelWitness ==
  /\ initialised
  /\ pc = "done"
  /\ targetLength = FallbackTargetLength
  /\ \A w \in dictionarySet : Len(w) <= FallbackTargetLength
  /\ \E k \in DOMAIN clusters : Range(clusters[k].words) \cap dictionarySet = {}

lexiconWordsOfLength(n) == {w \in Range(dictionary) : Len(w) = n}

\* The root-selection step of a call that found no word of the length asked.
fallsBack ==
  /\ pc = "called"
  /\ pc' = "rooted"
  /\ lexiconWordsOfLength(targetLength) = {}

sourceUnusable ==
  /\ ~response.none
  /\ ~response.ok \/ fetchedWords(response.text) = <<>>

\* C12: after an init whose fetch failed or gave no usable word, the lexicon,
\* the validity set and the anagram index are those built from the built-in
\* fallback list alone, every fallback word is valid and generateLevel does
\* not throw.
FallbackOnBadSource ==
  sourceUnusable =>
    /\ dictionary = fallback
    /\ dictionarySet = Range(fallback)
    /\ clusters = buildClusters(<<>>, fallback)
    /\ \A k \in DOMAIN fallback : isValidWord(toUpperCase(fallback[k]))
    /\ pc # "threw"

\* A run of init's catch block that follows another run of it: the same
\* word-source outcome twice.
failsAgain ==
  /\ fallbackRuns >= 1
  /\ fallbackRuns' = fallbackRuns + 1

\* What one successful init leaves from scratch.
singleRun(text) ==
  LET combined == uniqueInOrder(fetchedWords(text) \o PRIORITY_WORDS)
  IN [dictionary |-> combined,
      dictionarySet |-> Range(combined),
      clusters |-> buildClusters(<<>>, combined)]

\* C13: a second init with the same word-source outcome leaves the lexicon,
\* the validity set and every bucket as the first left them: a repeated
\* failing init changes nothing, and after any number of successful inits the
\* three are what a single run on that text leaves.
InitIdempotent ==
  /\ [][failsAgain =>
          /\ dictionary' = dictionary
          /\ dictionarySet' = dictionarySet
          /\ clusters' = clusters]_vars
  /\ [](response.ok =>
          /\ dictionary = singleRun(response.text).dictionary
          /\ dictionarySet = singleRun(response.text).dictionarySet
          /\ clusters = singleRun(response.text).clusters)

bucketsHolding(w) == {k \in DOMAIN clusters : w \in Range(clusters[k].words)}

timesIn(words, w) == Cardinality({i \in DOMAIN words : words[i] = w})

\* C14: every word of the lexicon is in exactly one bucket, once, and that
\* bucket's key is the word's letters sorted.
EveryWordInOneBucket ==
  \A w \in Range(dictionary) :
    /\ Cardinality(bucketsHolding(w)) = 1
    /\ \A k \in bucketsHolding(w) :
         /\ clusters[k].key = sortLetters(w)
         /\ timesIn(clusters[k].words, w) = 1

\* C15: the pool of a generation run holds exactly the lexicon words that the
\* root's letters can spell, each once, and every word of the pool and of the
\* returned validWords passes isValidWord.
PoolIsLexiconSubset ==
  inLayout =>
    /\ poolWords = {w \in Range(dictionary) : letterSubset(w, randomRoot)}
    /\ \A w \in poolWords : timesIn(weightedPool, w) = 1
    /\ \A w \in poolWords : isValidWord(w)
    /\ pc = "done" => \A k \in DOMAIN level.validWords : isValidWord(level.validWords[k])

\* A step of a generateLevel call.
callStep == pc # "idle" \/ pc' # "idle"

sameWords(s, t) ==
  /\ Len(s) = Len(t)
  /\ \A w \in Range(s) \cup Range(t) : timesIn(s, w) = timesIn(t, w)

\* C16: no step of generateLevel changes the lexicon, the validity set or the
\* anagram index; a call starts from a placed list and a grid that hold the
\* seed alone; and throughout a call the root is a word of the lexicon as it
\* is now (or the constant root) and the pool is what the index as it is now
\* gives for that root.
GenerateLevelIsPure ==
  /\ [][callStep =>
          /\ dictionary' = dictionary
          /\ dictionarySet' = dictionarySet
          /\ clusters' = clusters]_vars
  /\ [][(pc = "rooted" /\ pc' = "loop") =>
          /\ Len(placed') = 1
          /\ DOMAIN grid' = cellsOf(placed'[1])
          /\ DOMAIN cellToWords' = cellsOf(placed'[1])
          /\ \A c \in DOMAIN cellToWords' : cellToWords'[c] = <<placed'[1].word>>
          /\ attempts' = 0]_vars
  /\ [](inLayout =>
          /\ randomRoot \in Range(dictionary) \cup {water}
          /\ Len(randomRoot) = targetLength
          /\ sameWords(weightedPool, poolFrom(clusters, rootSorted)))

\* C16 witness: a call has returned a layout of several words and the lexicon
\* and the index are still what the latest init built.
GenerateLevelIsPureWitness ==
  /\ pc = "done"
  /\ Len(level.placedWords) >= 3
  /\ response.ok
  /\ dictionary = singleRun(response.text).dictionary
  /\ clusters = singleRun(response.text).clusters

\* C17: isSubset(sig(A), sig(B)) is true exactly when every character of A
\* occurs in B at least as often as in A; it is true for A = B and for empty
\* A, and false for a non-empty A that shares no character with B.
IsSubsetIsMultisetInclusion ==
  subsetResult.called =>
    /\ subsetResult.value <=>
         \A c \in Range(wordA) : charCount(wordA, c) <= charCount(wordB, c)
    /\ wordA = wordB => subsetResult.value
    /\ wordA = <<>> => subsetResult.value
    /\ (wordA # <<>> /\ Range(wordA) \cap Range(wordB) = {}) => ~subsetResult.value

\* C17 witness: a call that returned false although B holds every character
\* of A: A repeats one more often than B has it.
IsSubsetIsMultisetInclusionWitness ==
  /\ subsetResult.called
  /\ ~subsetResult.value
  /\ wordA # <<>>
  /\ Range(wordA) \subseteq Range(wordB)

sameLetters(s, t) ==
  /\ Len(s) = Len(t)
  /\ \A c \in Range(s) \cup Range(t) : charCount(s, c) = charCount(t, c)

inLetterOrder(s) == \A i, j \in DOMAIN s : i < j => Ord(s[i]) <= Ord(s[j])

\* C18: displayLetters of a returned LevelData, lower-cased, holds the root
\* word's letters with the same multiplicities, and rootLetters holds them in
\* sorted order.
DisplayLettersPermuteRoot ==
  pc = "done" =>
    /\ sameLetters(toLowerCase(level.displayLetters), randomRoot)
    /\ level.displayLetters = toUpperCase(level.displayLetters)
    /\ sameLetters(level.rootLetters, randomRoot)
    /\ inLetterOrder(level.rootLetters)

\* C18 witness: a returned level whose root repeats a letter and is not in
\* sorted order, and whose display letters are not in the root's order.
DisplayLettersPermuteRootWitness ==
  /\ pc = "done"
  /\ level.displayLetters # toUpperCase(randomRoot)
  /\ level.rootLetters # randomRoot
  /\ \E c \in Range(randomRoot) : charCount(randomRoot, c) >= 2

\* C19: a step of the placement loop keeps every placed word (string, anchor
\* and axis) and the character of every occupied cell; it appends at most one
\* word, whose cells then hold its letters, so that a cell it shares with an
\* earlier word is re-written with the character it held.
PlacedWordsStay ==
  [][(pc = "loop" /\ pc' \in {"loop", "done"}) =>
       /\ Len(placed') \in {Len(placed), Len(placed) + 1}
       /\ SubSeq(placed', 1, Len(placed)) = placed
       /\ \A c \in DOMAIN grid : c \in DOMAIN grid' /\ grid'[c] = grid[c]
       /\ Len(placed') = Len(placed) => grid' = grid /\ cellToWords' = cellToWords
       /\ Len(placed') = Len(placed) + 1 =>
            LET new == placed'[Len(placed')]
            IN /\ DOMAIN grid' = DOMAIN grid \cup cellsOf(new)
               /\ \A c \in cellsOf(new) : grid'[c] = letterAt(new, c)
               /\ cellsOf(new) \cap DOMAIN grid # {}]_vars

\* C19 witness: the loop is running with four or more words committed, one
\* of them written across a cell that an earlier word had filled.
PlacedWordsStayWitness ==
  /\ pc = "loop"
  /\ Len(placed) >= 4
  /\ \E c \in DOMAIN cellToWords : Len(cellToWords[c]) = 2

\* C20: when the pool holds exactly one word, that word is the seed at (0,0),
\* horizontal, and stays the only placed word; the loop goes on exactly while
\* fewer than ten attempts are spent, each of them skipping that word, and
\* the LevelData returned after the tenth holds that word alone.
LoneWordIsSeed ==
  (inLayout /\ Len(weightedPool) = 1) =>
    /\ placed = <<[word |-> weightedPool[1], x |-> 0, y |-> 0,
                   direction |-> "horizontal"]>>
    /\ attempts <= AttemptsPerPoolWord
    /\ pc = "loop" => (loopRuns <=> attempts < AttemptsPerPoolWord)
    /\ pc = "done" =>
         /\ attempts = AttemptsPerPoolWord
         /\ Len(level.placedWords) = 1
         /\ level.placedWords[1].word = weightedPool[1]
         /\ level.validWords = <<weightedPool[1]>>

\* C20 witness: a level returned from an initialised lexicon for a root that
\* is the only word its letters spell.
LoneWordIsSeedWitness ==
  /\ pc = "done"
  /\ initialised
  /\ Len(weightedPool) = 1
  /\ weightedPool[1] = randomRoot


\* The lines of the latest source text as the filter sees them.
sourceWords == {toLowerCase(trim(response.text[i])) : i \in DOMAIN response.text}

passesFilters(w) ==
  /\ Len(w) \in MinWordLength..MaxWordLength
  /\ \A i \in DOMAIN w : w[i] \in Letters
  /\ \E i \in DOMAIN w : w[i] \in {"a", "e", "i", "o", "u", "y"}
  /\ w \notin BLACKLIST

\* C21: after a successful init the lexicon holds exactly the source words
\* that pass the four filters together with the whole priority list, no word
\* twice; so every word of it passes the filters or is a priority word.
LexiconIsFilteredSource ==
  response.ok =>
    /\ Range(dictionary) =
         {w \in sourceWords : passesFilters(w)} \cup Range(PRIORITY_WORDS)
    /\ \A i, j \in DOMAIN dictionary : dictionary[i] = dictionary[j] => i = j
    /\ \A i \in DOMAIN dictionary :
         passesFilters(dictionary[i]) \/ dictionary[i] \in Range(PRIORITY_WORDS)
    /\ dictionarySet = Range(dictionary)

\* A successful init whose source repeated an accepted word, carried a line
\* that needed trimming and lower-casing, and whose lexicon holds source words.
LexiconIsFilteredSourceWitness ==
  /\ response.ok
  /\ \E i, j \in DOMAIN response.text :
       /\ i < j
       /\ response.text[i] = response.text[j]
       /\ response.text[i] \in Range(dictionary)
  /\ \E i \in DOMAIN response.text :
       /\ response.text[i] \notin Range(dictionary)
       /\ toLowerCase(trim(response.text[i])) \in Range(dictionary)
  /\ Range(dictionary) # Range(PRIORITY_WORDS)


\* The ranks of the pool words as long as the root.
rootLengthRanks == {k \in DOMAIN weightedPool : Len(weightedPool[k]) = Len(randomRoot)}

\* C22: the first word placed is the first word of the ranked pool as long as
\* the root (the top-ranked word when there is none), horizontal, anchored at
\* (0,0) before normalisation.
SeedIsFirstRootLengthWord ==
  inLayout =>
    /\ placed # <<>>
    /\ placed[1].word = IF rootLengthRanks = {} THEN weightedPool[1]
                        ELSE weightedPool[Min(rootLengthRanks)]
    /\ placed[1].direction = "horizontal"
    /\ placed[1].x = 0 /\ placed[1].y = 0
    /\ pc = "done" =>
         /\ level.placedWords[1].word = placed[1].word
         /\ level.placedWords[1].direction = "horizontal"

\* A layout whose seed is not the top-ranked pool word, with two root-length
\* words in the pool and a second word already placed.
SeedIsFirstRootLengthWordWitness ==
  /\ inLayout
  /\ Len(weightedPool[1]) # Len(randomRoot)
  /\ Len(placed) >= 2
  /\ placed[1].word = weightedPool[Min(rootLengthRanks)]


\* One iteration of the placement loop, seen as a step.
attemptStep == pc = "loop" /\ pc' = "loop" /\ attempts' = attempts + 1

\* The loops run over placed words in placement order, then i, then j.
triedEarlier(h, f) ==
  \/ h[1] < f[1]
  \/ h[1] = f[1] /\ h[2] < f[2]
  \/ h[1] = f[1] /\ h[2] = f[2] /\ h[3] < f[3]

\* canPlace for the crossing (k, i, j) of the candidate.
crossingFits(pl, g, c2w, candidate, f) ==
  LET c == crossing(pl[f[1]], f[2], f[3])
  IN canPlace(g, c2w, candidate, c.x, c.y, c.dir, c.ix, c.iy)

\* C23: a candidate that is placed gets the anchor and axis of the first
\* crossing, in the order placed word, i, j, for which canPlace succeeds; it
\* is left unplaced in an attempt only if canPlace fails for every crossing.
FirstFitWins ==
  [][(attemptStep /\ ~alreadyPlaced(placed, nextCandidate)) =>
       LET matches == letterMatches(placed, nextCandidate)
           good == {f \in matches :
                      crossingFits(placed, grid, cellToWords, nextCandidate, f)}
       IN IF good = {}
            THEN placed' = placed
            ELSE \E f \in good :
                   /\ \A h \in matches : triedEarlier(h, f) => h \notin good
                   /\ LET c == crossing(placed[f[1]], f[2], f[3])
                      IN placed' = Append(placed,
                                     [word |-> nextCandidate, x |-> c.x, y |-> c.y,
                                      direction |-> c.dir])]_vars

\* A pending candidate, in a layout of two words or more, whose first crossings
\* in search order are refused by canPlace while a later one is accepted.
FirstFitWinsWitness ==
  /\ candidatePending
  /\ Len(placed) >= 2
  /\ LET matches == letterMatches(placed, nextCandidate)
     IN \E f, g \in matches :
          /\ triedEarlier(f, g)
          /\ ~crossingFits(placed, grid, cellToWords, nextCandidate, f)
          /\ crossingFits(placed, grid, cellToWords, nextCandidate, g)
          /\ \E h \in matches :
               /\ triedEarlier(g, h)
               /\ crossingFits(placed, grid, cellToWords, nextCandidate, h)


\* Letter j of the word q lies on the cell of letter i of the word p, the two
\* words are on different axes and the two letters are equal.
crossesAt(q, p, i, j) ==
  /\ i < Len(p.word) /\ j < Len(q.word)
  /\ q.direction # p.direction
  /\ cellOf(q.x, q.y, q.direction, j) = cellOf(p.x, p.y, p.direction, i)
  /\ q.word[j + 1] = p.word[i + 1]
  /\ IF p.direction = "horizontal"
       THEN q.x = p.x + i /\ q.y = p.y - j
       ELSE q.x = p.x - j /\ q.y = p.y + i

\* C24: every placed word but the seed is perpendicular to an earlier placed
\* word p, anchored so that its letter j lies on the cell of p's letter i, and
\* the two letters are equal.
PerpendicularCrossing ==
  inLayout =>
    \A k \in 2..Len(placed) :
      \E m \in 1..(k - 1), i, j \in 0..(MaxWordLength - 1) :
        crossesAt(placed[k], placed[m], i, j)

\* A layout with a horizontal non-seed word crossing a vertical word that is
\* neither at its first letter nor at the vertical word's first letter.
PerpendicularCrossingWitness ==
  /\ inLayout
  /\ \E k \in 3..Len(placed) :
       /\ placed[k].direction = "horizontal"
       /\ \E m \in 2..(k - 1), i, j \in 1..(MaxWordLength - 1) :
            crossesAt(placed[k], placed[m], i, j)


\* The cells the word placed[k] found occupied when it was committed: those of
\* the words placed before it.
occupiedAtCommit(pl, k) == cellsOf(pl[k]) \cap occupiedBy(SubSeq(pl, 1, k - 1))

RECURSIVE totalLength(_)
totalLength(pl) ==
  IF pl = <<>> THEN 0 ELSE Len(Head(pl).word) + totalLength(Tail(pl))

\* C25: every placed word but the seed covered, when it was committed, exactly
\* one occupied cell, all its other cells being empty; so after n placements
\* the occupied cells number the sum of the word lengths minus (n - 1).
OneSharedCellPerWord ==
  inLayout =>
    /\ \A k \in 2..Len(placed) : Cardinality(occupiedAtCommit(placed, k)) = 1
    /\ Cardinality(DOMAIN grid) = totalLength(placed) - (Len(placed) - 1)
    /\ DOMAIN grid = occupiedBy(placed)

\* A layout of five words or more under construction, whose pending candidate
\* has a crossing that would run over two occupied cells.
OneSharedCellPerWordWitness ==
  /\ candidatePending
  /\ Len(placed) >= 5
  /\ \E f \in letterMatches(placed, nextCandidate) :
       Cardinality(runOf(nextCandidate, crossing(placed[f[1]], f[2], f[3]))
                     \cap DOMAIN grid) >= 2


\* ------------------------------------------------------------------- App
\* Two LevelData values generateLevel returns over the built-in fallback
\* lexicon: the roots "trust" and "great", each with its one sub-word.
LevelTrust ==
  [rootLetters |-> <<"r","s","t","t","u">>,
   displayLetters |-> <<"T","R","U","S","T">>,
   validWords |-> << <<"t","r","u","s","t">>, <<"r","u","s","t">> >>,
   placedWords |->
     << [word |-> <<"t","r","u","s","t">>, x |-> 0, y |-> 3, direction |-> "horizontal"],
        [word |-> <<"r","u","s","t">>, x |-> 0, y |-> 0, direction |-> "vertical"] >>,
   gridWidth |-> 5,
   gridHeight |-> 4,
   foundWords |-> {}]

LevelGreat ==
  [rootLetters |-> <<"a","e","g","r","t">>,
   displayLetters |-> <<"G","R","E","A","T">>,
   validWords |-> << <<"g","r","e","a","t">>, <<"g","e","a","r">> >>,
   placedWords |->
     << [word |-> <<"g","r","e","a","t">>, x |-> 0, y |-> 0, direction |-> "horizontal"],
        [word |-> <<"g","e","a","r">>, x |-> 0, y |-> 0, direction |-> "vertical"] >>,
   gridWidth |-> 5,
   gridHeight |-> 4,
   foundWords |-> {}]


\* generateLevel(length) as App sees it once init has taken the catch block:
\* the fallback lexicon has words of 4 and 5 letters only, so every root has
\* 5 letters whatever length is asked.
generatedLevels(length) == {LevelTrust, LevelGreat}

\* What the player can submit: the words of the two levels, a word too short
\* and a string that is no word.
Guesses ==
  Range(LevelTrust.validWords) \cup Range(LevelGreat.validWords)
    \cup {<<"r","u","t">>, <<"t","u","r","t">>}

NoHints == <<>>

\* The state of the latest render, which the handlers close over.
rendered ==
  [level |-> level, revealedIndices |-> revealedIndices, gameState |-> gameState,
   message |-> message, isSkipped |-> isSkipped, score |-> score,
   levelNumber |-> levelNumber]

\* revealedIndices[pw.word] || []
hintsOf(r, w) == IF w \in DOMAIN r THEN r[w] ELSE <<>>

\* cx, cy of letter i of a placed word.
cellAt(pw, i) == cellOf(pw.x, pw.y, pw.direction, i)

\* Mutant of revealTarget: the index is recorded for one covering word only.
revealTargetFirstWordOnly(prev, placedWords, target) ==
  LET covering == {k \in DOMAIN placedWords :
                     \E i \in 0..(Len(placedWords[k].word) - 1) :
                       cellAt(placedWords[k], i) = target}
      first == CHOOSE k \in covering : \A k2 \in covering : k <= k2
      indexIn(k) == CHOOSE i \in 0..(Len(placedWords[k].word) - 1) :
                      cellAt(placedWords[k], i) = target
      touched == {placedWords[first].word}
  IN [w \in DOMAIN prev \cup touched |->
        IF w \in touched
          THEN Append(hintsOf(prev, w), indexIn(first))
          ELSE prev[w]]

\* The updater of setRevealedIndices: the index of the target cell is appended
\* for every placed word that covers it.
revealTarget(prev, placedWords, target) ==
  LET covering == {k \in DOMAIN placedWords :
                     \E i \in 0..(Len(placedWords[k].word) - 1) :
                       cellAt(placedWords[k], i) = target}
      indexIn(k) == CHOOSE i \in 0..(Len(placedWords[k].word) - 1) :
                      cellAt(placedWords[k], i) = target
      touched == {placedWords[k].word : k \in covering}
  IN [w \in DOMAIN prev \cup touched |->
        IF w \in touched
          THEN Append(hintsOf(prev, w),
                      indexIn(CHOOSE k \in covering : placedWords[k].word = w))
          ELSE prev[w]]

\* A queued state update: a value to set, or an updater function of the
\* previous value.
setLevel(l) == [op |-> "setLevel", arg |-> l]
setRevealedIndices(r) == [op |-> "setRevealedIndices", arg |-> r]
setRevealedIndicesAt(placedWords, target) ==
  [op |-> "revealTarget", arg |-> [placedWords |-> placedWords, target |-> target]]
setGameState(g) == [op |-> "setGameState", arg |-> g]
setMessage(m) == [op |-> "setMessage", arg |-> m]
setIsSkipped(b) == [op |-> "setIsSkipped", arg |-> b]
setScorePlus(n) == [op |-> "scorePlus", arg |-> n]
setScoreMinus(n) == [op |-> "scoreMinus", arg |-> n]
setLevelNumberPlus(n) == [op |-> "levelNumberPlus", arg |-> n]

\* One queued update applied to the state s.
applyUpdate(s, u) ==
  CASE u.op = "setLevel" -> [s EXCEPT !.level = u.arg]
    [] u.op = "setRevealedIndices" -> [s EXCEPT !.revealedIndices = u.arg]
    [] u.op = "revealTarget" ->
         [s EXCEPT !.revealedIndices =
                      revealTarget(@, u.arg.placedWords, u.arg.target)]
    [] u.op = "setGameState" -> [s EXCEPT !.gameState = u.arg]
    [] u.op = "setMessage" -> [s EXCEPT !.message = u.arg]
    [] u.op = "setIsSkipped" -> [s EXCEPT !.isSkipped = u.arg]
    [] u.op = "scorePlus" -> [s EXCEPT !.score = @ + u.arg]
    [] u.op = "scoreMinus" -> [s EXCEPT !.score = Max({0, @ - u.arg})]
    [] u.op = "levelNumberPlus" -> [s EXCEPT !.levelNumber = @ + u.arg]

RECURSIVE applyUpdates(_, _)
applyUpdates(s, q) ==
  IF q = <<>> THEN s ELSE applyUpdates(applyUpdate(s, Head(q)), Tail(q))

\* showTemporaryMessage: the message is set; the timeout that clears it is
\* the action MessageTimeout.
showTemporaryMessage(msg) == <<setMessage(msg)>>

\* loadNewLevel, given the LevelData generateLevel returned.
loadNewLevel(nextLevelData) ==
  <<setLevel(nextLevelData), setRevealedIndices(NoHints), setGameState("PLAYING"),
    setMessage(""), setIsSkipped(FALSE)>>

\* Mutant of handleWordComplete: the test for a word already found is missing.
handleWordCompleteRescoring(word) ==
  IF level = NoLevel \/ gameState # "PLAYING" THEN <<>>
  ELSE IF Len(word) < MinGuessLength
    THEN IF Len(word) > 0 THEN showTemporaryMessage("Too short!") ELSE <<>>
  ELSE IF word \in Range(level.validWords)
    THEN LET updatedFound == level.foundWords \cup {word}
         IN <<setLevel([level EXCEPT !.foundWords = updatedFound]),
              setScorePlus(Len(word) * PointsPerLetter)>>
              \o showTemporaryMessage("Great!")
              \o (IF Cardinality(updatedFound) = Len(level.validWords)
                    THEN <<setGameState("LEVEL_COMPLETE")>> ELSE <<>>)
  ELSE IF isValidWord(word)
    THEN showTemporaryMessage("Valid word, but not here!")
    ELSE showTemporaryMessage("Not a word!")

\* handleWordComplete: the updates it queues, reading level and gameState of
\* its render.
handleWordComplete(word) ==
  IF level = NoLevel \/ gameState # "PLAYING" THEN <<>>
  ELSE IF Len(word) < MinGuessLength
    THEN IF Len(word) > 0 THEN showTemporaryMessage("Too short!") ELSE <<>>
  ELSE IF word \in level.foundWords THEN showTemporaryMessage("Already found!")
  ELSE IF word \in Range(level.validWords)
    THEN LET updatedFound == level.foundWords \cup {word}
         IN <<setLevel([level EXCEPT !.foundWords = updatedFound]),
              setScorePlus(Len(word) * PointsPerLetter)>>
              \o showTemporaryMessage("Great!")
              \o (IF Cardinality(updatedFound) = Len(level.validWords)
                    THEN <<setGameState("LEVEL_COMPLETE")>> ELSE <<>>)
  ELSE IF isValidWord(word)
    THEN showTemporaryMessage("Valid word, but not here!")
    ELSE showTemporaryMessage("Not a word!")

\* The cells of the placed words, word by word and letter by letter.
RECURSIVE cellsInOrder(_)
cellsInOrder(placedWords) ==
  IF placedWords = <<>> THEN <<>>
  ELSE [i \in 1..Len(Head(placedWords).word) |-> cellAt(Head(placedWords), i - 1)]
         \o cellsInOrder(Tail(placedWords))

\* handleHelp's visibleCoords: the cells of found words and the hinted cells.
visibleCoords(l, r) ==
  {cellAt(l.placedWords[k], i) :
     <<k, i>> \in {ki \in (DOMAIN l.placedWords) \X (0..(MaxWordLength - 1)) :
                     /\ ki[2] < Len(l.placedWords[ki[1]].word)
                     /\ \/ l.placedWords[ki[1]].word \in l.foundWords
                        \/ ki[2] \in Range(hintsOf(r, l.placedWords[ki[1]].word))}}

\* handleHelp's hiddenCells: each cell that is not visible, once, in order.
hiddenCells(l, r) ==
  LET visible == visibleCoords(l, r)
      hiddenCell(c) == c \notin visible
  IN uniqueInOrder(SelectSeq(cellsInOrder(l.placedWords), hiddenCell))

\* handleHelp, Math.random() being draw / RandomScale.
handleHelp(draw) ==
  IF level = NoLevel \/ gameState # "PLAYING" THEN <<>>
  ELSE LET hidden == hiddenCells(level, revealedIndices)
       IN IF Len(hidden) = 0 THEN <<>>
          ELSE LET target == hidden[((draw * Len(hidden)) \div RandomScale) + 1]
               IN <<setRevealedIndicesAt(level.placedWords, target),
                    setScoreMinus(HintCost)>>

\* Mutant of handleGiveUp: the level is closed without marking its words found.
handleGiveUpKeepingFound ==
  IF level = NoLevel \/ gameState # "PLAYING" THEN <<>>
  ELSE <<setIsSkipped(TRUE), setGameState("LEVEL_COMPLETE")>>
         \o showTemporaryMessage("Words revealed!")

handleGiveUp ==
  IF level = NoLevel \/ gameState # "PLAYING" THEN <<>>
  ELSE <<setIsSkipped(TRUE),
         setLevel([level EXCEPT !.foundWords = Range(level.validWords)]),
         setGameState("LEVEL_COMPLETE")>>
         \o showTemporaryMessage("Words revealed!")

\* nextLevel, with extra = 1 when Math.random() > 0.6 and the LevelData
\* generateLevel returns for the length it asks.
nextLength(extra) ==
  Min({MaxNextLength,
       Max({MinNextLength,
            (IF level = NoLevel \/ Len(level.rootLetters) = 0
               THEN MinNextLength ELSE Len(level.rootLetters)) + extra})})

nextLevel(nextLevelData) ==
  (IF ~isSkipped THEN <<setLevelNumberPlus(1)>> ELSE <<>>)
    \o loadNewLevel(nextLevelData)

\* A re-render: the queued updates are applied in order, and the handlers of
\* the new render close over the result.
Commit(q) ==
  LET s == applyUpdates(rendered, q)
  IN /\ level' = s.level
     /\ revealedIndices' = s.revealedIndices
     /\ gameState' = s.gameState
     /\ message' = s.message
     /\ isSkipped' = s.isSkipped
     /\ score' = s.score
     /\ levelNumber' = s.levelNumber
     /\ updates' = <<>>

\* A click or pointer-up handler that queued `own`: React renders the updates
\* of such an event, after those queued earlier, before the next event
\* is dispatched. A handler that queues nothing causes no render.
Handled(own) ==
  /\ own # <<>>
  /\ Commit(updates \o own)

engineAndWheel == <<engine, pc, locals, subsetCall, wheel>>

\* The mount effect's continuation: wordEngine.init() has completed through
\* its catch block and loadNewLevel(6) queues its updates; being outside any
\* event, they wait for the next render.
InitGame ==
  /\ mounts = 0
  /\ mounts' = mounts + 1
  /\ loads' = loads + 1
  /\ dictionary' = fallback
  /\ dictionarySet' = Range(fallback)
  /\ clusters' = buildClusters(clusters, fallback)
  /\ response' = FailedResponse
  /\ fallbackRuns' = fallbackRuns + 1
  /\ \E nextLevelData \in generatedLevels(FirstLevelLength) :
       updates' = updates \o loadNewLevel(nextLevelData)
  /\ UNCHANGED <<level, revealedIndices, gameState, message, isSkipped, score,
                 levelNumber, pc, locals, subsetCall, wheel>>

Render ==
  /\ updates # <<>>
  /\ Commit(updates)
  /\ UNCHANGED <<mounts, loads, engineAndWheel>>

\* LetterWheel's pointer-up hands a word to onWordComplete.
SubmitWord(word) ==
  /\ Handled(handleWordComplete(word))
  /\ UNCHANGED <<mounts, loads, engineAndWheel>>

Submit == \E word \in Guesses : SubmitWord(word)

\* A click on the hint button.
Help ==
  /\ \E draw \in RandomDraws : Handled(handleHelp(draw))
  /\ UNCHANGED <<mounts, loads, engineAndWheel>>

\* A click on the give-up button.
GiveUp ==
  /\ Handled(handleGiveUp)
  /\ UNCHANGED <<mounts, loads, engineAndWheel>>

\* A click on Continue, which is rendered when the level is finished.
NextLevel ==
  /\ gameState = "LEVEL_COMPLETE"
  /\ loads < MaxLoads
  /\ loads' = loads + 1
  /\ \E extra \in {0, 1} :
       \E nextLevelData \in generatedLevels(nextLength(extra)) :
         Handled(nextLevel(nextLevelData))
  /\ UNCHANGED <<mounts, engineAndWheel>>

\* The timeout of showTemporaryMessage fires and its render follows; no
\* handler reads message.
MessageTimeout ==
  /\ message # ""
  /\ updates = <<>>
  /\ Commit(<<setMessage("")>>)
  /\ UNCHANGED <<mounts, loads, engineAndWheel>>

AppInit ==
  /\ Constructed
  /\ wordA = <<>>
  /\ wordB = <<>>
  /\ subsetResult = NoSubsetCall
  /\ AppConstructed
  /\ NoWheel

AppNext ==
  \/ InitGame
  \/ Render
  \/ Submit
  \/ Help
  \/ GiveUp
  \/ NextLevel
  \/ MessageTimeout

AppSpec == AppInit /\ [][AppNext]_vars


\* C26: whenever App has a level, the found words are words of the level, and
\* the game is LEVEL_COMPLETE exactly when every word of the level is found.
CompleteIffAllFound ==
  level # NoLevel =>
    /\ level.foundWords \subseteq Range(level.validWords)
    /\ gameState = "LEVEL_COMPLETE" <=> Range(level.validWords) \subseteq level.foundWords

\* A second level, reached by Continue after the first was completed by
\* submissions, is completed by giving up after a hint and a found word.
CompleteIffAllFoundWitness ==
  /\ level # NoLevel
  /\ gameState = "LEVEL_COMPLETE"
  /\ levelNumber = 2
  /\ isSkipped
  /\ revealedIndices # NoHints
  /\ score > 100


\* The word is one the current level still awaits, and the game is on.
scores(word) ==
  /\ level # NoLevel
  /\ gameState = "PLAYING"
  /\ Len(word) >= MinGuessLength
  /\ word \in Range(level.validWords)
  /\ word \notin level.foundWords

\* C27: a submission raises the score only for a valid word of the level not
\* yet found, by 10 per letter, and marks it found, so that within one level
\* no word scores twice; a word already found, too short, not in validWords,
\* or submitted while the game is not PLAYING changes neither score nor
\* foundWords.
ScoreOncePerWord ==
  [][/\ \A word \in Guesses :
          SubmitWord(word) =>
            IF scores(word)
              THEN /\ score' = score + PointsPerLetter * Len(word)
                   /\ level'.foundWords = level.foundWords \cup {word}
                   /\ level'.validWords = level.validWords
              ELSE score' = score /\ level' = level
     /\ score' > score =>
          \E word \in Guesses :
            /\ scores(word)
            /\ score' = score + PointsPerLetter * Len(word)
            /\ word \in level'.foundWords
     /\ (level # NoLevel /\ loads' = loads /\ updates = <<>>) =>
          /\ level'.validWords = level.validWords
          /\ level.foundWords \subseteq level'.foundWords]_vars

\* One word of the level has scored its 10 per letter, and submitting it
\* again was answered "Already found!" with the score unchanged.
ScoreOncePerWordWitness ==
  /\ level # NoLevel
  /\ gameState = "PLAYING"
  /\ message = "Already found!"
  /\ \E word \in level.foundWords :
       /\ level.foundWords = {word}
       /\ score = PointsPerLetter * Len(word)


\* ------------------------------------------- hint requests and re-renders
\* The hint requests whose updates wait for a render.
requestsPending ==
  Cardinality({i \in DOMAIN updates : updates[i].op = "revealTarget"})

\* handleHelp runs and its updates are queued; the re-render is the separate
\* step Render, so that several requests may be handled by one render.
HelpRequest ==
  /\ requestsPending < MaxPending
  /\ \E draw \in RandomDraws :
       /\ handleHelp(draw) # <<>>
       /\ updates' = updates \o handleHelp(draw)
  /\ UNCHANGED <<level, revealedIndices, gameState, message, isSkipped, score,
                 levelNumber, mounts, loads, engineAndWheel>>

\* The points of a set of found words.
RECURSIVE pointsOf(_)
pointsOf(found) ==
  IF found = {} THEN 0
  ELSE LET w == CHOOSE w \in found : TRUE
       IN PointsPerLetter * Len(w) + pointsOf(found \ {w})

\* The engine after the mount effect's init() took the catch block.
FallbackLoaded ==
  /\ dictionary = fallback
  /\ dictionarySet = Range(fallback)
  /\ clusters = buildClusters(<<>>, fallback)
  /\ response = FailedResponse
  /\ fallbackRuns = 1
  /\ pc = "idle"
  /\ targetLength = 0
  /\ randomRoot = <<>>
  /\ rootSorted = <<>>
  /\ weightedPool = <<>>
  /\ placed = <<>>
  /\ grid = <<>>
  /\ cellToWords = <<>>
  /\ attempts = 0
  /\ wordA = <<>>
  /\ wordB = <<>>
  /\ subsetResult = NoSubsetCall

\* App in the middle of a level after some completed levels: the engine holds
\* the fallback lexicon, some words of the level are found by submissions and
\* scored (every level of the fallback lexicon is worth the same points), no
\* hint is taken yet and nothing waits for a render.
HintInit ==
  /\ FallbackLoaded
  /\ NoWheel
  /\ \E l \in generatedLevels(FirstLevelLength), earlier \in 0..MaxLoads :
       \E found \in SUBSET Range(l.validWords) :
         /\ level = [l EXCEPT !.foundWords = found]
         /\ gameState = IF found = Range(l.validWords) THEN "LEVEL_COMPLETE" ELSE "PLAYING"
         /\ score = pointsOf(found) + earlier * pointsOf(Range(l.validWords))
         /\ levelNumber = earlier + 1
         /\ loads = earlier + 1
  /\ message = ""
  /\ isSkipped = FALSE
  /\ revealedIndices = NoHints
  /\ updates = <<>>
  /\ mounts = 1

HintNext ==
  \/ HelpRequest
  \/ Render

HintSpec == HintInit /\ [][HintNext]_vars


\* The cells a render makes visible.
newlyVisible ==
  visibleCoords(level, revealedIndices') \ visibleCoords(level, revealedIndices)

\* No letter index is recorded twice for a word in r.
noIndexTwice(r) ==
  \A w \in DOMAIN r : \A i, j \in DOMAIN r[w] : r[w][i] = r[w][j] => i = j

\* A hint request does nothing when there is no level, the game is not being
\* played or no cell is hidden.
idleHelp ==
  (\/ level = NoLevel
   \/ gameState # "PLAYING"
   \/ Len(hiddenCells(level, revealedIndices)) = 0)
    => \A draw \in RandomDraws : handleHelp(draw) = <<>>

wordOf(indices) == [i \in DOMAIN indices |-> letters[indices[i] + 1]]

\* One updater of setSelectedIndices applied to prev.
applyMove(prev, u) ==
  IF u.op = "append" THEN Append(prev, u.arg)
  ELSE IF prev = <<>> THEN <<>> ELSE SubSeq(prev, 1, Len(prev) - 1)

RECURSIVE applyMoves(_, _)
applyMoves(prev, q) ==
  IF q = <<>> THEN prev ELSE applyMoves(applyMove(prev, Head(q)), Tail(q))

\* handleMove with the pointer within selectionThreshold of tile index (the
\* tiles are farther apart than twice the threshold, so of one tile only):
\* the updaters it queues, decided on the selectedIndices it closes over.
handleMove(index) ==
  LET seen == heard.selectedIndices
  IN IF Len(seen) = 0 THEN <<>>
     ELSE IF index \notin Range(seen) THEN <<[op |-> "append", arg |-> index]>>
     ELSE IF Len(seen) > 1 /\ seen[Len(seen) - 1] = index THEN <<[op |-> "slice", arg |-> 0]>>
     ELSE <<>>

\* The window listeners of a render with the given selection and word.
subscribed(indices, word) ==
  [attached |-> Len(indices) > 0, selectedIndices |-> indices, currentWord |-> word]

appAndEngine == <<engine, pc, locals, level, subsetCall, app>>

\* LetterWheel mounted by App for a level that is being played.
WheelInit ==
  /\ FallbackLoaded
  /\ \E l \in generatedLevels(FirstLevelLength) :
       /\ level = l
       /\ letters = l.displayLetters
  /\ gameState = "PLAYING"
  /\ message = ""
  /\ isSkipped = FALSE
  /\ score = 0
  /\ levelNumber = 1
  /\ loads = 1
  /\ mounts = 1
  /\ revealedIndices = NoHints
  /\ updates = <<>>
  /\ selectedIndices = <<>>
  /\ pointerPos = "null"
  /\ currentGuess = <<>>
  /\ heard = subscribed(<<>>, <<>>)
  /\ moves = <<>>
  /\ completed = <<>>

\* Pointer-down on a tile starts a gesture (handleStart); the render of this
\* discrete event and its effect subscribe the window listeners.
PointerDown(index) ==
  /\ ~heard.attached
  /\ moves = <<>>
  /\ selectedIndices' = <<index>>
  /\ currentGuess' = <<letters[index + 1]>>
  /\ pointerPos' = "set"
  /\ heard' = subscribed(selectedIndices', currentGuess')
  /\ UNCHANGED <<letters, moves, completed, appAndEngine>>

\* A pointer-move callback near a tile: its updaters wait for a render.
PointerMove(index) ==
  /\ heard.attached
  /\ Len(moves) < MaxPending
  /\ Len(selectedIndices) + Len(moves) < MaxSelected
  /\ moves' = moves \o handleMove(index)
  /\ UNCHANGED <<letters, selectedIndices, pointerPos, currentGuess, heard,
                 completed, appAndEngine>>

\* A re-render: the queued updaters run in order, each setting the current
\* word to the letters of its result, and the listener effect subscribes the
\* handlers of this render.
WheelRender ==
  /\ moves # <<>>
  /\ selectedIndices' = applyMoves(selectedIndices, moves)
  /\ currentGuess' = wordOf(selectedIndices')
  /\ heard' = subscribed(selectedIndices', currentGuess')
  /\ moves' = <<>>
  /\ UNCHANGED <<letters, pointerPos, completed, appAndEngine>>

\* Pointer-up (handleEnd): the word of the subscribed render is handed to
\* onWordComplete and the selection is cleared.
PointerUp ==
  /\ heard.attached
  /\ completed' = IF Len(heard.selectedIndices) > 0
                    THEN <<toLowerCase(heard.currentWord)>>
                    ELSE completed
  /\ selectedIndices' = <<>>
  /\ pointerPos' = "null"
  /\ currentGuess' = <<>>
  /\ moves' = <<>>
  /\ heard' = subscribed(<<>>, <<>>)
  /\ UNCHANGED <<letters, appAndEngine>>

Press == \E index \in 0..(Len(letters) - 1) : PointerDown(index)

Drag == \E index \in 0..(Len(letters) - 1) : PointerMove(index)

WheelNext ==
  \/ Press
  \/ Drag
  \/ WheelRender
  \/ PointerUp

WheelSpec == WheelInit /\ [][WheelNext]_vars

\* The words that use each tile of the wheel at most once.
RECURSIVE tileWords(_)
tileWords(n) ==
  IF n = 0 THEN {<<>>}
  ELSE tileWords(n - 1) \cup
         {Append(w, i) : <<w, i>> \in
            {wi \in tileWords(n - 1) \X (0..(Len(letters) - 1)) :
               Len(wi[1]) = n - 1 /\ wi[2] \notin Range(wi[1])}}

\* C29: during a drag gesture, whatever the interleaving of pointer-move
\* callbacks and renders, no tile index is twice in selectedIndices, the
\* current word is the letters at selectedIndices in order, and a submitted
\* guess uses each tile at most once.
EachTileOnce ==
  /\ \A i, j \in DOMAIN selectedIndices :
       selectedIndices[i] = selectedIndices[j] => i = j
  /\ currentGuess = wordOf(selectedIndices)
  /\ \A k \in DOMAIN completed :
       \E indices \in tileWords(Len(letters)) :
         completed[k] = toLowerCase(wordOf(indices))

====
